---- MODULE Spec2Model ----
(***************************************************************************)
(* Balance-sheet extraction and validation engine (populater.py and        *)
(* validator.py).                                                          *)
(*                                                                         *)
(* Text is a TLA+ string; the character at position i is SubSeq(s, i, i).  *)
(* A Python float is modelled by the decimal expansion of its exact value  *)
(* (a record [ok, neg, ip, fp]: sign, integer digits, fraction digits), so *)
(* that the rounding float() applies above 2^53 is part of the model.      *)
(* Numbers stored in a schema are integers counting hundredths.            *)
(***************************************************************************)
EXTENDS Integers, Sequences, FiniteSets, TLC

VARIABLES
    heap,        \* the dict objects of the Python heap, by address
    template,    \* the caller's template: the value json.load returned for it
    loaded,      \* the JSON value that was read from the file
    data,        \* the instance handed to the validator and the analyzer
    runs,        \* the populate_balance_sheet calls made so far, with snapshots
    op,          \* the operation performed last
    validation,  \* the results of validate_balance_sheet on data, newest last
    coverage,    \* the reports of count_extracted_fields on data, newest last
    in_text,     \* the text handed to clean_number / extract_value_from_text
    in_pattern,  \* the locator pattern handed to extract_value_from_text
    out_number   \* the float the last clean_number / extract call returned

vars == <<heap, template, loaded, data, runs, op, validation, coverage,
          in_text, in_pattern, out_number>>

----------------------------------------------------------------------------
(* Characters and strings *)

\* the element of a singleton: in Only({e(x) : x \in {v}}) the value v is
\* computed once, however often e uses it
Only(S) == CHOOSE x \in S : TRUE

UpperLetters == "ABCDEFGHIJKLMNOPQRSTUVWXYZ"

LowerLetters == "abcdefghijklmnopqrstuvwxyz"

Digits == "0123456789"

\* the character at position i of s, "" outside s
At(s, i) == IF 1 <= i /\ i <= Len(s) THEN SubSeq(s, i, i) ELSE ""

UpperSet == {At(UpperLetters, k) : k \in 1..26}

DigitSet == {At(Digits, k) : k \in 1..10}

\* [A-Z]
IsUpper(c) == c \in UpperSet

\* \d, on the characters the model's texts use
IsDigit(c) == c \in DigitSet

\* \s of the re module, on the characters the model's texts use
IsSpace(c) == c \in {" ", "\t", "\n"}

\* re.IGNORECASE compares characters after case folding
LowerOf == [c \in UpperSet |->
               At(LowerLetters, CHOOSE k \in 1..26 : At(UpperLetters, k) = c)]

LowerChar(c) == IF IsUpper(c) THEN LowerOf[c] ELSE c

RECURSIVE Fold(_)
\* s with every letter in lower case
Fold(s) ==
    IF Len(s) <= 1 THEN LowerChar(s)
    ELSE Fold(SubSeq(s, 1, Len(s) \div 2)) \o Fold(SubSeq(s, Len(s) \div 2 + 1, Len(s)))

ValueOf == [c \in DigitSet |-> (CHOOSE k \in 1..10 : At(Digits, k) = c) - 1]

DigitVal(c) == ValueOf[c]

DigitChar(d) == At(Digits, d + 1)

RECURSIVE Filter(_, _)
\* s without the characters of the set drop
Filter(s, drop) ==
    IF s = "" THEN ""
    ELSE (IF At(s, 1) \in drop THEN "" ELSE At(s, 1)) \o Filter(Tail(s), drop)

RECURSIVE AllDigits(_)
AllDigits(s) == s = "" \/ (IsDigit(At(s, 1)) /\ AllDigits(Tail(s)))

RECURSIVE StripLeadingZeros(_)
StripLeadingZeros(s) ==
    IF Len(s) > 1 /\ At(s, 1) = "0" THEN StripLeadingZeros(Tail(s)) ELSE s

RECURSIVE StripTrailingZeros(_)
StripTrailingZeros(s) ==
    IF s # "" /\ At(s, Len(s)) = "0"
    THEN StripTrailingZeros(SubSeq(s, 1, Len(s) - 1))
    ELSE s

\* str.strip(): whitespace removed at both ends
RECURSIVE LStrip(_)
LStrip(s) == IF s # "" /\ IsSpace(At(s, 1)) THEN LStrip(Tail(s)) ELSE s

RECURSIVE RStrip(_)
RStrip(s) ==
    IF s # "" /\ IsSpace(At(s, Len(s)))
    THEN RStrip(SubSeq(s, 1, Len(s) - 1))
    ELSE s

Strip(s) == LStrip(RStrip(s))

----------------------------------------------------------------------------
(* Decimal digit strings as natural numbers of any size *)

\* the numeric order of two canonical digit strings (no leading zeros)
RECURSIVE LexLess(_, _)
LexLess(a, b) ==
    /\ a # ""
    /\ \/ DigitVal(At(a, 1)) < DigitVal(At(b, 1))
       \/ (At(a, 1) = At(b, 1) /\ LexLess(Tail(a), Tail(b)))

DecLess(a, b) == Len(a) < Len(b) \/ (Len(a) = Len(b) /\ LexLess(a, b))

RECURSIVE DecAdd(_, _)
\* the digit string of a + d, for a small d >= 0
DecAdd(a, d) ==
    IF d = 0 THEN a
    ELSE IF a = "" THEN DecAdd("0", d)
    ELSE LET s == DigitVal(At(a, Len(a))) + d
         IN  StripLeadingZeros(
                 DecAdd(SubSeq(a, 1, Len(a) - 1), s \div 10) \o DigitChar(s % 10))

RECURSIVE DecSub(_, _)
\* the digit string of a - d, for a small d with 0 <= d <= a
DecSub(a, d) ==
    IF d = 0 THEN a
    ELSE LET last == DigitVal(At(a, Len(a)))
             s == last - (d % 10)
             borrow == IF s < 0 THEN 1 ELSE 0
         IN  StripLeadingZeros(
                 DecSub(SubSeq(a, 1, Len(a) - 1), d \div 10 + borrow)
                     \o DigitChar(s + 10 * borrow))

RECURSIVE DecToInt(_)
\* the value of a short digit string
DecToInt(s) ==
    IF s = "" THEN 0
    ELSE DecToInt(SubSeq(s, 1, Len(s) - 1)) * 10 + DigitVal(At(s, Len(s)))

RECURSIVE IntToDec(_)
\* str(n)
IntToDec(n) ==
    IF n < 10 THEN DigitChar(n) ELSE IntToDec(n \div 10) \o DigitChar(n % 10)

\* the value of the last k digits of s
LowDigits(s, k) ==
    DecToInt(SubSeq(s, IF Len(s) > k THEN Len(s) - k + 1 ELSE 1, Len(s)))

----------------------------------------------------------------------------
(* float(): populater.py line 27 *)

\* 2^53 .. 2^59: above 2^(52+k) two neighbouring doubles are 2^k apart
BinadeStarts ==
    << "9007199254740992", "18014398509481984", "36028797018963968",
       "72057594037927936", "144115188075855872", "288230376151711744",
       "576460752303423488" >>

\* the largest k with 2^(52+k) <= n, 0 when n < 2^53
Binade(n) ==
    Cardinality({k \in 1..Len(BinadeStarts) : ~DecLess(n, BinadeStarts[k])})

Pow2(k) == CASE k = 0 -> 1 [] k = 1 -> 2 [] k = 2 -> 4 [] k = 3 -> 8
             [] k = 4 -> 16 [] k = 5 -> 32 [] k = 6 -> 64 [] OTHER -> 128

\* the integer n (a canonical digit string below 10^18) rounded to the nearest
\* double, ties to the even mantissa
RoundToDouble(n) ==
    LET k == Binade(n)
        q == Pow2(k)
        low == LowDigits(n, 9) % (2 * q)
        r == low % q
        odd == low >= q
    IN  IF k = 0 \/ r = 0 THEN n
        ELSE IF 2 * r < q \/ (2 * r = q /\ ~odd) THEN DecSub(n, r)
        ELSE DecAdd(n, q - r)

NotANumber == [ok |-> FALSE, neg |-> FALSE, ip |-> "0", fp |-> ""]

Float(neg, ip, fp) == [ok |-> TRUE, neg |-> neg, ip |-> ip, fp |-> fp]

Zero == Float(FALSE, "0", "")

\* float(s) for s over digits, sign, point, parentheses and letters other
\* than those of an exponent, "inf" or "nan": ok is FALSE for a ValueError
PyFloat(s) ==
    LET signed == s # "" /\ At(s, 1) \in {"-", "+"}
        body == IF signed THEN Tail(s) ELSE s
        dots == {i \in 1..Len(body) : At(body, i) = "."}
        dot == IF dots = {} THEN Len(body) + 1 ELSE CHOOSE i \in dots : TRUE
        ip == SubSeq(body, 1, dot - 1)
        fp == SubSeq(body, dot + 1, Len(body))
    IN  IF /\ Cardinality(dots) <= 1
           /\ AllDigits(ip) /\ AllDigits(fp)
           /\ ip \o fp # ""
        THEN LET i == StripLeadingZeros(IF ip = "" THEN "0" ELSE ip)
                 f == StripTrailingZeros(fp)
             IN  Float(signed /\ At(s, 1) = "-",
                       IF f = "" THEN RoundToDouble(i) ELSE i, f)
        ELSE NotANumber

IsZero(x) == x.ip = "0" /\ x.fp = ""

\* == on floats: -0.0 == 0.0
FloatEq(x, y) ==
    /\ x.ip = y.ip /\ x.fp = y.fp
    /\ (x.neg = y.neg \/ IsZero(x))

\* unary minus
Neg(x) == [x EXCEPT !.neg = ~x.neg]

----------------------------------------------------------------------------
(* clean_number: populater.py lines 5-30 *)

\* the absent literal (None)
None == "<None>"

\* line 16 with the class [\s] in place of [,\s]
RemoveSpace(value_str) == Filter(value_str, {" ", "\t", "\n"})

\* re.sub(r'[,\s]', '', value_str): line 16
RemoveCommasAndSpace(value_str) == Filter(value_str, {",", " ", "\t", "\n"})

\* lines 21-24: an enclosing pair of parentheses becomes a minus sign
Unparenthesize(cleaned) ==
    IF cleaned # "" /\ At(cleaned, 1) = "(" /\ At(cleaned, Len(cleaned)) = ")"
    THEN "-" \o SubSeq(cleaned, 2, Len(cleaned) - 1)
    ELSE cleaned

\* lines 26-27 without the except clause of lines 28-30
OrRaise(parsed) == parsed

\* lines 26-30: the parsed number, 0 when float() raised ValueError
OrZero(parsed) == IF parsed.ok THEN parsed ELSE Zero

clean_number(value_str) ==
    IF value_str = None \/ value_str = "" THEN Zero
    ELSE OrZero(PyFloat(Unparenthesize(RemoveCommasAndSpace(value_str))))

----------------------------------------------------------------------------
(* Locator patterns and re.search: populater.py lines 32-41 *)

(* Every numeric locator of the populator has the shape                    *)
(*     w1 \s+ w2 \s+ ... wn \s+ open ( group ) close                       *)
(* with literal words w1..wn, open and close either empty or the literal   *)
(* parentheses \( and \), and the group \d+(?:,\d+)* ("digits"). The group *)
(* \S+ ("nonspace") is a caller's pattern that can capture any literal.    *)
Pattern(words, open, cap, close) ==
    [words |-> words, open |-> open, cap |-> cap, close |-> close]

NoPattern == Pattern(<<>>, "", "none", "")

NoMatch == [found |-> FALSE, group |-> ""]

Match(group) == [found |-> TRUE, group |-> group]

\* the literal w at position i of text
MatchExact(text, i, w) ==
    i + Len(w) - 1 <= Len(text) /\ SubSeq(text, i, i + Len(w) - 1) = w

RECURSIVE SkipSpace(_, _)
\* the position after the longest run of whitespace starting at i
SkipSpace(text, i) ==
    IF IsSpace(At(text, i)) THEN SkipSpace(text, i + 1) ELSE i

RECURSIVE SkipDigits(_, _)
SkipDigits(text, i) ==
    IF IsDigit(At(text, i)) THEN SkipDigits(text, i + 1) ELSE i

RECURSIVE SkipNonSpace(_, _)
SkipNonSpace(text, i) ==
    IF i <= Len(text) /\ ~IsSpace(At(text, i))
    THEN SkipNonSpace(text, i + 1)
    ELSE i

RECURSIVE SkipCommaGroups(_, _)
\* (?:,\d+)* from position i, greedy
SkipCommaGroups(text, i) ==
    IF At(text, i) = "," /\ IsDigit(At(text, i + 1))
    THEN SkipCommaGroups(text, SkipDigits(text, i + 1))
    ELSE i

\* the position after the group matched at i, i itself when it does not match
GroupEnd(text, i, cap) ==
    CASE cap = "digits" ->
            IF IsDigit(At(text, i))
            THEN SkipCommaGroups(text, SkipDigits(text, i))
            ELSE i
      [] cap = "nonspace" -> SkipNonSpace(text, i)
      [] OTHER -> i

\* the literal w at position i of text, letters compared after case folding
MatchFold(text, i, w) ==
    /\ i + Len(w) - 1 <= Len(text)
    /\ LowerChar(At(text, i)) = LowerChar(At(w, 1))
    /\ Fold(SubSeq(text, i, i + Len(w) - 1)) = Fold(w)

RECURSIVE MatchWords(_, _, _)
\* the position after w1 \s+ ... wn \s+ matched at i, 0 when it does not match
MatchWords(text, i, words) ==
    IF words = <<>> THEN i
    ELSE IF MatchFold(text, i, Head(words))
    THEN LET j == i + Len(Head(words))
             k == SkipSpace(text, j)
         IN  IF k > j THEN MatchWords(text, k, Tail(words)) ELSE 0
    ELSE 0

\* the group from position g to position e, when it is not empty and the
\* closing literal follows it
GroupTo(text, pat, g, e) ==
    IF e > g /\ MatchExact(text, e, pat.close)
    THEN Match(SubSeq(text, g, e - 1))
    ELSE NoMatch

\* the words followed by .*? in place of the last \s+: the group is sought at
\* the first digit after the words
GroupAtLater(text, pat, j) ==
    LET ds == {k \in j..Len(text) : IsDigit(At(text, k))}
        g == CHOOSE a \in ds : \A b \in ds : a <= b
    IN  IF j > 0 /\ ds # {}
        THEN GroupTo(text, pat, g, GroupEnd(text, g, pat.cap))
        ELSE NoMatch

\* open ( group ) close at position j, the position after the words
GroupAt(text, pat, j) ==
    IF j > 0 /\ MatchExact(text, j, pat.open)
    THEN GroupTo(text, pat, j + Len(pat.open),
                 GroupEnd(text, j + Len(pat.open), pat.cap))
    ELSE NoMatch

\* the pattern matched at position i exactly
MatchAt(text, i, pat) == GroupAt(text, pat, MatchWords(text, i, pat.words))

\* the positions at which the literal w occurs in text, in any case
Occurrences(text, w) == {i \in 1..Len(text) : MatchFold(text, i, w)}

\* the match at the least of the positions hits
Leftmost(text, pat, hits) ==
    IF hits = {} THEN NoMatch
    ELSE MatchAt(text, CHOOSE i \in hits : \A j \in hits : i <= j, pat)

\* the positions at which the pattern matches, sought where its first word is
Hits(text, pat) ==
    {i \in (IF pat.words = <<>> THEN 1..Len(text)
            ELSE Occurrences(text, pat.words[1])) :
        MatchAt(text, i, pat).found}

\* re.search(pat, text, re.IGNORECASE | ...): the leftmost match
re_search(pat, text) == Leftmost(text, pat, Hits(text, pat))

\* lines 37-40: the captured literal normalized, 0 when there is no match
MatchValue(match) == IF match.found THEN clean_number(match.group) ELSE Zero

extract_value_from_text(text, pat) == MatchValue(re_search(pat, text))

----------------------------------------------------------------------------
(* JSON values and the Python heap *)

(* A value is a record [t, n, s, d]: a number ("num", n hundredths), true  *)
(* or false ("bool", n the number it counts as: 1.00 or 0), a string       *)
(* ("str", s), null, a JSON object ("dict", d its entries in order) or, in *)
(* the heap, a reference ("ref", s the address of a dict object).          *)
(* A dict object is the sequence of its entries [k, v] in insertion order; *)
(* the heap maps the address of every dict object to the object.           *)
Num(x) == [t |-> "num", n |-> x, s |-> "", d |-> <<>>]

Str(x) == [t |-> "str", n |-> 0, s |-> x, d |-> <<>>]

Bool(b) == [t |-> "bool", n |-> IF b THEN 100 ELSE 0, s |-> "", d |-> <<>>]

Null == [t |-> "null", n |-> 0, s |-> "", d |-> <<>>]

\* what a variable holds before anything is assigned to it
Unbound == [t |-> "unbound", n |-> 0, s |-> "", d |-> <<>>]

Dict(entries) == [t |-> "dict", n |-> 0, s |-> "", d |-> entries]

Ref(address) == [t |-> "ref", n |-> 0, s |-> address, d |-> <<>>]

Entry(key, value) == [k |-> key, v |-> value]

\* key in obj
HasKey(obj, key) == \E i \in DOMAIN obj : obj[i].k = key

\* obj[key]
Get(obj, key) == obj[CHOOSE i \in DOMAIN obj : obj[i].k = key].v

\* obj[key] = value: an existing key keeps its place, a new one goes last
Put(obj, key, value) ==
    IF HasKey(obj, key)
    THEN LET i == CHOOSE j \in DOMAIN obj : obj[j].k = key
         IN  SubSeq(obj, 1, i - 1) \o <<Entry(key, value)>>
                 \o SubSeq(obj, i + 1, Len(obj))
    ELSE Append(obj, Entry(key, value))

RECURSIVE LeafAt(_, _)
\* the value at a key path of a JSON value, Null when the path is not there
LeafAt(jv, path) ==
    IF path = <<>> THEN jv
    ELSE IF jv.t = "dict" /\ HasKey(jv.d, Head(path))
    THEN LeafAt(Get(jv.d, Head(path)), Tail(path))
    ELSE Null

RECURSIVE DictPaths(_, _)
\* the key paths of the JSON objects in jv, jv itself at prefix
DictPaths(jv, prefix) ==
    IF jv.t # "dict" THEN {}
    ELSE {prefix} \cup
         UNION {DictPaths(jv.d[i].v, Append(prefix, jv.d[i].k)) : i \in DOMAIN jv.d}

RECURSIVE AddressOf(_, _)
\* the address of the object at a key path of the value loaded at base
AddressOf(base, path) ==
    IF path = <<>> THEN base
    ELSE AddressOf(base, SubSeq(path, 1, Len(path) - 1)) \o "/" \o path[Len(path)]

\* the dict object for the JSON object at a key path of jv: its entries, a
\* nested object replaced by the reference to it
ObjectAt(jv, base, path) ==
    LET es == LeafAt(jv, path).d
    IN  [i \in DOMAIN es |->
            IF es[i].v.t = "dict"
            THEN Entry(es[i].k, Ref(AddressOf(base, Append(path, es[i].k))))
            ELSE es[i]]

\* json.load: heap h with the objects of the JSON value jv, all new, the
\* outermost at address base
Alloc(h, jv, base) ==
    LET paths == DictPaths(jv, <<>>)
        new == {AddressOf(base, p) : p \in paths}
    IN  [a \in DOMAIN h \cup new |->
            IF a \in new
            THEN ObjectAt(jv, base, CHOOSE p \in paths : AddressOf(base, p) = a)
            ELSE h[a]]

\* the value json.load returns: a reference to the outermost object
Loaded(jv, base) == IF jv.t = "dict" THEN Ref(base) ELSE jv

RECURSIVE Deep(_, _)
\* the JSON value a heap value stands for: what json.dump would write
Deep(h, v) ==
    IF v.t # "ref" THEN v
    ELSE Dict([i \in DOMAIN h[v.s] |-> Entry(h[v.s][i].k, Deep(h, h[v.s][i].v))])

----------------------------------------------------------------------------
(* populate_balance_sheet: populater.py lines 43-204 *)

\* the number a float is stored as: its value in hundredths
Hundredths(x) ==
    LET frac == SubSeq(x.fp \o "00", 1, 2)
        mag == DecToInt(x.ip) * 100 + DecToInt(frac)
    IN  IF x.neg THEN -mag ELSE mag

\* a locator whose group is \S+ in place of \d+(?:,\d+)*: it captures a sign
\* or parentheses with the digits
SignedLocator(path, words) ==
    [path |-> path, pat |-> Pattern(words, "", "nonspace", ""), treasury |-> FALSE]

\* lines 70-202: a leaf assigned through extract_value_from_text, its pattern
\* the words of the label and an unsigned digit group
Locator(path, words) ==
    [path |-> path, pat |-> Pattern(words, "", "digits", ""), treasury |-> FALSE]

\* line 184: the amount is captured inside literal parentheses
Treasury(path, words) ==
    [path |-> path, pat |-> Pattern(words, "(", "digits", ")"), treasury |-> TRUE]

\* the assignments of lines 70-202, in source order
Locators ==
    <<
       Locator(<<"assets", "current_assets", "cash", "1010_checking">>,
           <<"1010", "Checking">>),
       Locator(<<"assets", "current_assets", "cash", "1020_savings">>,
           <<"1020", "Savings">>),
       Locator(<<"assets", "current_assets", "cash", "1030_petty_cash">>,
           <<"1030", "Petty", "Cash">>),
       Locator(<<"assets", "current_assets", "cash", "total_cash">>,
           <<"Total", "Cash">>),
       Locator(<<"assets", "current_assets", "1100_accounts_receivable">>,
           <<"1100", "Accounts", "Receivable">>),
       Locator(<<"assets", "current_assets", "1200_work_in_process">>,
           <<"1200", "Work", "in", "Process">>),
       Locator(<<"assets", "current_assets", "other_current_assets", "1310_prepaid_rent">>,
           <<"1310", "Prepaid", "Rent">>),
       Locator(<<"assets", "current_assets", "other_current_assets", "1320_prepaid_liability_insurance">>,
           <<"1320", "Prepaid", "Liability", "Insurance">>),
       Locator(<<"assets", "current_assets", "other_current_assets", "total_other_current_assets">>,
           <<"Total", "Other", "Current", "Assets">>),
       Locator(<<"assets", "current_assets", "total_current_assets">>,
           <<"Total", "Current", "Assets">>),
       Locator(<<"assets", "non_current_assets", "1400_net_computer_equipment">>,
           <<"1400", "Net", "Computer", "Equipment">>),
       Locator(<<"assets", "non_current_assets", "1500_net_furniture_fixtures_equipment">>,
           <<"1500", "Net", "Furniture,", "Fixtures,", "&", "Equipment">>),
       Locator(<<"assets", "non_current_assets", "1600_net_field_equipment">>,
           <<"1600", "Net", "Field", "Equipment">>),
       Locator(<<"assets", "non_current_assets", "1700_net_real_estate">>,
           <<"1700", "Net", "Real", "Estate">>),
       Locator(<<"assets", "non_current_assets", "1800_net_leasehold_improvements">>,
           <<"1800", "Net", "Leasehold", "Improvements">>),
       Locator(<<"assets", "non_current_assets", "1900_other_assets">>,
           <<"1900", "Other", "Assets">>),
       Locator(<<"assets", "non_current_assets", "total_non_current_assets">>,
           <<"Total", "Non-Current", "Assets">>),
       Locator(<<"assets", "total_assets">>,
           <<"Total", "Assets">>),
       Locator(<<"liabilities", "current_liabilities", "2000_accounts_payable">>,
           <<"2000", "Accounts", "Payable">>),
       Locator(<<"liabilities", "current_liabilities", "2100_deferred_taxes">>,
           <<"2100", "Deferred", "Taxes">>),
       Locator(<<"liabilities", "current_liabilities", "2200_line_of_credit_borrowing">>,
           <<"2200", "Line", "of", "Credit", "Borrowing">>),
       Locator(<<"liabilities", "current_liabilities", "2300_current_portion_long_term_debt">>,
           <<"2300", "Current", "Portion", "of", "Long-Term", "Debt">>),
       Locator(<<"liabilities", "current_liabilities", "2400_other_current_liabilities">>,
           <<"2400", "Other", "Current", "Liabilities">>),
       Locator(<<"liabilities", "current_liabilities", "total_current_liabilities">>,
           <<"Total", "Current", "Liabilities">>),
       Locator(<<"liabilities", "non_current_liabilities", "2500_long_term_debt">>,
           <<"2500", "Long-Term", "Debt">>),
       Locator(<<"liabilities", "non_current_liabilities", "2600_other_liabilities">>,
           <<"2600", "Other", "Liabilities">>),
       Locator(<<"liabilities", "non_current_liabilities", "total_non_current_liabilities">>,
           <<"Total", "Non-Current", "Liabilities">>),
       Locator(<<"liabilities", "total_liabilities">>,
           <<"Total", "Liabilities">>),
       Locator(<<"equity", "3000_capital_stock">>,
           <<"3000", "Capital", "Stock">>),
       Treasury(<<"equity", "3100_treasury_stock">>,
           <<"3100", "Treasury", "Stock">>),
       Locator(<<"equity", "3200_retained_earnings">>,
           <<"3200", "Retained", "Earnings">>),
       Locator(<<"equity", "total_equity">>,
           <<"Total", "Equity">>),
       Locator(<<"total_liabilities_and_equity">>,
           <<"Total", "Liabilities", "and", "Equity">>) >>

RECURSIVE SkipUpper(_, _)
SkipUpper(text, i) ==
    IF IsUpper(At(text, i)) THEN SkipUpper(text, i + 1) ELSE i

\* ([A-Z]+),?\s*Inc\.? at position i with a group of k letters: line 52
CompanyAt(text, i, k) ==
    LET j == i + k
        c == IF At(text, j) = "," THEN j + 1 ELSE j
    IN  k >= 1 /\ j <= SkipUpper(text, i) /\ MatchExact(text, SkipSpace(text, c), "Inc")

\* the group lengths [A-Z]+ can take at position i
UpperRuns(text, i) == 1..(SkipUpper(text, i) - i)

\* re.search(r'([A-Z]+),?\s*Inc\.?', text): leftmost, then the longest group
company_match(text) ==
    LET hits == {i \in 1..Len(text) : \E k \in UpperRuns(text, i) : CompanyAt(text, i, k)}
    IN  IF hits = {} THEN NoMatch
        ELSE LET i == CHOOSE a \in hits : \A b \in hits : a <= b
                 ks == {k \in UpperRuns(text, i) : CompanyAt(text, i, k)}
                 k == CHOOSE a \in ks : \A b \in ks : a >= b
             IN  Match(SubSeq(text, i, i + k - 1))

RECURSIVE SkipLine(_, _)
\* the position after the longest run of characters other than "\n"
SkipLine(text, i) ==
    IF i <= Len(text) /\ At(text, i) # "\n" THEN SkipLine(text, i + 1) ELSE i

\* the positions at which the group of As of\s+([^\n]+), matched at i, can
\* start: after one or more whitespace characters, at a character not "\n"
DateGroups(text, i) ==
    {g \in (i + 6)..SkipSpace(text, i + 5) : g <= Len(text) /\ At(text, g) # "\n"}

\* re.search(r'As of\s+([^\n]+)', text, re.IGNORECASE): line 57; \s+ is
\* greedy, so the group starts as late as it can
date_match(text) ==
    LET hits == {i \in Occurrences(text, "As of") : DateGroups(text, i) # {}}
    IN  IF hits = {} THEN NoMatch
        ELSE LET i == CHOOSE a \in hits : \A b \in hits : a <= b
                 gs == DateGroups(text, i)
                 g == CHOOSE a \in gs : \A b \in gs : a >= b
             IN  Match(SubSeq(text, g, SkipLine(text, g) - 1))

RECURSIVE Navigate(_, _, _)
\* populated[k1][k2]...: the address of the dict object reached from the
\* object at address root along keys; "" when a key is missing (KeyError)
\* or its value is no dict (TypeError)
Navigate(h, root, keys) ==
    IF keys = <<>> THEN root
    ELSE IF HasKey(h[root], Head(keys)) /\ Get(h[root], Head(keys)).t = "ref"
    THEN Navigate(h, Get(h[root], Head(keys)).s, Tail(keys))
    ELSE ""

\* obj[key] = value for the object at address a; ok is FALSE when the
\* statement raises because there is no such object
AssignAt(h, a, key, value) ==
    IF a = "" THEN [h |-> h, ok |-> FALSE]
    ELSE [h |-> [h EXCEPT ![a] = Put(h[a], key, value)], ok |-> TRUE]

\* populated[path] = value on heap h
Assign(h, root, path, value) ==
    AssignAt(h, Navigate(h, root, SubSeq(path, 1, Len(path) - 1)),
             path[Len(path)], value)

\* line 188 without its minus sign
treasury_value_unnegated(group) == clean_number(group)

\* line 188: the explicit negation of the treasury amount
treasury_value(group) == Neg(clean_number(group))

\* what a statement does to its leaf: assign a value, or leave it alone
Assigns(value) == [assign |-> TRUE, value |-> value]

Leaves == [assign |-> FALSE, value |-> Null]

\* lines 185-188: the treasury leaf is assigned only if its pattern matched
TreasuryStatement(treasury_match) ==
    IF treasury_match.found
    THEN Assigns(Num(Hundredths(treasury_value(treasury_match.group))))
    ELSE Leaves

\* the right-hand side of one statement of lines 70-202: it reads the text only
Statement(text_content, loc) ==
    IF loc.treasury
    THEN Only({TreasuryStatement(treasury_match) :
                 treasury_match \in {re_search(loc.pat, text_content)}})
    ELSE Only({Assigns(Num(Hundredths(x))) :
                 x \in {extract_value_from_text(text_content, loc.pat)}})

\* the right-hand sides of lines 70-202, in source order
Statements(text_content) ==
    [i \in 1..Len(Locators) |-> Statement(text_content, Locators[i])]

\* one statement of lines 70-202 on heap h
PopulateStep(h, root, path, statement) ==
    IF statement.assign THEN Assign(h, root, path, statement.value)
    ELSE [h |-> h, ok |-> TRUE]

RECURSIVE PopulateFrom(_, _, _, _), PopulateNext(_, _, _, _)
\* the statements from the i-th on; the first that raises ends the call
PopulateFrom(h, root, statements, i) ==
    IF i > Len(Locators) THEN [h |-> h, ok |-> TRUE]
    ELSE Only({PopulateNext(r, root, statements, i) :
                 r \in {PopulateStep(h, root, Locators[i].path, statements[i])}})

\* the statements after the i-th, r the outcome of the i-th
PopulateNext(r, root, statements, i) ==
    IF r.ok THEN PopulateFrom(r.h, root, statements, i + 1) ELSE r

\* line 48: template.copy() is a new dict, at address copy, with the entries
\* of the template: the nested dicts are the template's own
CopyTemplate(h, tmpl, copy) ==
    [a \in DOMAIN h \cup {copy} |-> IF a = copy THEN h[tmpl.s] ELSE h[a]]

\* lines 52-59: the two header fields, set when their pattern matches
PopulateHeader(obj, text_content) ==
    LET company == company_match(text_content)
        date == date_match(text_content)
        named == IF company.found
                 THEN Put(obj, "company_name", Str(Strip(company.group)))
                 ELSE obj
    IN  IF date.found THEN Put(named, "report_date", Str(Strip(date.group)))
        ELSE named

\* line 204: return populated, unless a statement raised
PopulateResult(r, copy) ==
    [h |-> r.h, ok |-> r.ok, root |-> IF r.ok THEN Ref(copy) ELSE Null]

\* populate_balance_sheet(text_content, template) on heap h, the new dict
\* placed at address copy: the heap after the call, whether it returned (ok)
\* and the value it returned (root)
populate_balance_sheet(h, text_content, tmpl, copy) ==
    IF tmpl.t # "ref" THEN [h |-> h, ok |-> FALSE, root |-> Null]
    ELSE Only({PopulateResult(r, copy) :
                 r \in {PopulateFrom(h1, copy, statements, 1) :
                     h1 \in {[CopyTemplate(h, tmpl, copy) EXCEPT
                                ![copy] = PopulateHeader(h[tmpl.s], text_content)]},
                     statements \in {Statements(text_content)}}})

----------------------------------------------------------------------------
(* validator.py: validate_balance_sheet and count_extracted_fields *)

\* isinstance(value, (int, float)): true and false are ints
IsNumber(value) == value.t \in {"num", "bool"}

Raised == [ok |-> FALSE, v |-> Null]

Returned(value) == [ok |-> TRUE, v |-> value]

\* obj[section][key] in place of lines 10-12: no defaults
AggregateStrict(h, obj, section, key) ==
    IF ~HasKey(obj, section) THEN Raised
    ELSE LET sec == Get(obj, section)
         IN  IF sec.t # "ref" THEN Raised
             ELSE IF HasKey(h[sec.s], key) THEN Returned(Get(h[sec.s], key))
             ELSE Raised

\* obj.get(section, {}).get(key, 0) of lines 10-12: a missing section or a
\* missing key reads as 0; a section that is no dict has no get and raises
Aggregate(h, obj, section, key) ==
    IF ~HasKey(obj, section) THEN Returned(Num(0))
    ELSE LET sec == Get(obj, section)
         IN  IF sec.t # "ref" THEN Raised
             ELSE IF HasKey(h[sec.s], key) THEN Returned(Get(h[sec.s], key))
             ELSE Returned(Num(0))

\* obj.get(key, 0) of line 13
TopLevel(obj, key) == IF HasKey(obj, key) THEN Returned(Get(obj, key)) ELSE Returned(Num(0))

\* lines 16-17 without abs()
SignedDifference(x) == x

\* abs(x) over hundredths
Abs(x) == IF x < 0 THEN -x ELSE x

\* the tolerance 1.0 of lines 27-28, in hundredths
Tolerance == 100

\* what a call that raised leaves in place of a report
NoValidation ==
    [ok |-> FALSE,
     total_assets |-> Null, total_liabilities |-> Null, total_equity |-> Null,
     calculated_total |-> Null, stated_total |-> Null,
     balance_difference |-> Null, stated_difference |-> Null,
     is_balanced |-> FALSE, matches_stated |-> FALSE]

\* validate_balance_sheet(populated_data) on heap h: the nine fields of the
\* report, ok FALSE when the call raised (populated_data or a section without
\* get, or arithmetic on an aggregate that is no number)
validate_balance_sheet(h, populated_data) ==
    IF populated_data.t # "ref" THEN NoValidation
    ELSE LET obj == h[populated_data.s]
             total_assets == Aggregate(h, obj, "assets", "total_assets")
             total_liabilities == Aggregate(h, obj, "liabilities", "total_liabilities")
             total_equity == Aggregate(h, obj, "equity", "total_equity")
             total_liab_equity == TopLevel(obj, "total_liabilities_and_equity")
         IN  IF \E a \in {total_assets, total_liabilities, total_equity,
                           total_liab_equity} : ~a.ok \/ ~IsNumber(a.v)
             THEN NoValidation
             ELSE LET calculated_total == total_liabilities.v.n + total_equity.v.n
                      balance_difference == Abs(total_assets.v.n - calculated_total)
                      stated_difference == Abs(total_assets.v.n - total_liab_equity.v.n)
                  IN  [ok |-> TRUE,
                       total_assets |-> total_assets.v,
                       total_liabilities |-> total_liabilities.v,
                       total_equity |-> total_equity.v,
                       calculated_total |-> Num(calculated_total),
                       stated_total |-> total_liab_equity.v,
                       balance_difference |-> Num(balance_difference),
                       stated_difference |-> Num(stated_difference),
                       is_balanced |-> balance_difference < Tolerance,
                       matches_stated |-> stated_difference < Tolerance]

\* line 42 with the two header fields only
TwoHeaderKeys == {"company_name", "report_date"}

\* line 42: the keys count_fields passes over
HeaderKeys == {"company_name", "report_date", "report_title"}

\* lines 34-36 at module level: the accumulators a call starts with are the
\* ones the call before it ended with
CountCarried ==
    IF coverage = <<>>
    THEN [extracted_count |-> 0, total_count |-> 0, missing_fields |-> <<>>]
    ELSE [extracted_count |-> coverage[Len(coverage)].extracted_fields,
          total_count |-> coverage[Len(coverage)].total_fields,
          missing_fields |-> coverage[Len(coverage)].missing_fields]

\* lines 34-36: the accumulators as a call starts
CountStart == [extracted_count |-> 0, total_count |-> 0, missing_fields |-> <<>>]

\* line 44: f"{prefix}.{key}" if prefix else key
FieldPath(prefix, key) == IF prefix # "" THEN prefix \o "." \o key ELSE key

\* lines 45-50 without the else branch of line 49
CountLeafUnlisted(acc, value, field_path) ==
    IF value.n # 0
    THEN [acc EXCEPT !.total_count = @ + 1, !.extracted_count = @ + 1]
    ELSE [acc EXCEPT !.total_count = @ + 1]

\* lines 45-50: a numeric value is counted, and listed as missing when it is 0
CountLeaf(acc, value, field_path) ==
    IF value.n # 0
    THEN [acc EXCEPT !.total_count = @ + 1, !.extracted_count = @ + 1]
    ELSE [acc EXCEPT !.total_count = @ + 1,
                     !.missing_fields = Append(@, field_path)]

RECURSIVE count_fields(_, _, _, _), CountEntries(_, _, _, _, _)
\* count_fields(obj, prefix) of lines 38-52 on heap h: the accumulators after
\* the call, acc before it; a value that is no dict is passed over
count_fields(h, acc, obj, prefix) ==
    IF obj.t = "ref" THEN CountEntries(h, acc, h[obj.s], prefix, 1) ELSE acc

\* the loop of line 41 from the i-th entry on
CountEntries(h, acc, entries, prefix, i) ==
    IF i > Len(entries) THEN acc
    ELSE LET key == entries[i].k
             value == entries[i].v
             field_path == FieldPath(prefix, key)
             next == IF key \in HeaderKeys THEN acc
                     ELSE IF IsNumber(value) THEN CountLeaf(acc, value, field_path)
                     ELSE IF value.t = "ref" THEN count_fields(h, acc, value, field_path)
                     ELSE acc
         IN  IF next.total_count >= 0
             THEN CountEntries(h, next, entries, prefix, i + 1)
             ELSE next

\* line 54 as an exact quotient num/den: extracted_count / total_count * 100,
\* and 0 when total_count is 0
ExtractionRate(extracted_count, total_count) ==
    IF total_count > 0 THEN [num |-> extracted_count * 100, den |-> total_count]
    ELSE [num |-> 0, den |-> 1]

\* lines 55-60: the report made of the accumulators
CountReport(acc) ==
    [extracted_fields |-> acc.extracted_count,
     total_fields |-> acc.total_count,
     extraction_rate |-> ExtractionRate(acc.extracted_count, acc.total_count),
     missing_fields |-> acc.missing_fields]

\* count_extracted_fields(populated_data) on heap h
count_extracted_fields(h, populated_data) ==
    CountReport(count_fields(h, CountStart, populated_data, ""))

----------------------------------------------------------------------------
(* The template and the documents of the pipeline *)

RECURSIVE JInsert(_, _, _)
\* the JSON object jv with leaf at a key path, sections made as needed
JInsert(jv, path, leaf) ==
    IF Len(path) = 1 THEN Dict(Put(jv.d, path[1], leaf))
    ELSE LET child == IF HasKey(jv.d, Head(path)) THEN Get(jv.d, Head(path))
                      ELSE Dict(<<>>)
         IN  Dict(Put(jv.d, Head(path), JInsert(child, Tail(path), leaf)))

RECURSIVE TemplateFrom(_, _, _)
\* the first i assigned paths added to the header fields
TemplateFrom(base, i, fill) ==
    IF i = 0 THEN base
    ELSE LET jv == TemplateFrom(base, i - 1, fill)
         IN  IF jv.t = "dict" THEN JInsert(jv, Locators[i].path, Num(fill)) ELSE jv

\* the template of the fixed shape: the two header fields and every section
\* and leaf the populator assigns, each numeric leaf holding fill
TemplateValue(fill) ==
    TemplateFrom(Dict(<<Entry("company_name", Str("")),
                        Entry("report_date", Str(""))>>), Len(Locators), fill)

\* an empty template, and one a caller has filled in before (7.00 everywhere)
Templates == {TemplateValue(0), TemplateValue(700)}

ScenarioA ==
    "1010 Checking 1,250,000\nTotal Assets 1,250,000\n"
        \o "Total Liabilities 1,000,000\nTotal Equity 250,000"

ScenarioB == "3100 Treasury Stock (500,000)"

ScenarioD == "Total Assets 100\nTotal Liabilities and Equity 50"

\* scenario D after a header, its two lines the other way round
ScenarioDHeaded == "XYZ, Inc.\nTotal Liabilities and Equity 50\nTotal Assets 100\n"

TwoTreasuryLines == "3100 Treasury Stock (7)\n3100 Treasury Stock (500,000)"

Document ==
    "XYZ, Inc.\nBalance Sheet\nAs of  December 31, 2018 \n"
        \o "total\n cash\t12\n1100 Accounts Receivable (5,000)\n"
        \o "1500 Net Furniture, Fixtures, & Equipment 3,4\n"
        \o "Total Non-Current Liabilities 8 Total Liabilities and Equity 9"

TreasuryLine(N) == "3100 Treasury Stock (" \o N \o ")"

\* the documents: none of the labels; the scenarios; a treasury line alone
\* and between other lines; two treasury lines; a statement with a header
Texts ==
    {"", ScenarioA, ScenarioB, ScenarioD, ScenarioDHeaded, TwoTreasuryLines, Document,
     TreasuryLine("0"),
     "Total Equity 250,000 " \o TreasuryLine("1,250,000") \o "\n3200 Retained Earnings 9"}

----------------------------------------------------------------------------
(* The pipeline: a caller loads the template once (populater.py lines      *)
(* 209-210), hands it to populate_balance_sheet for one document after     *)
(* another, and validates and analyzes the instance returned last          *)
(* (validator.py lines 76-77).                                             *)

\* the most populate_balance_sheet calls in a behaviour
MaxCalls == 2

Init ==
    /\ heap = <<>>
    /\ template = Unbound
    /\ loaded = Unbound
    /\ data = Unbound
    /\ runs = <<>>
    /\ op = "start"
    /\ validation = <<>>
    /\ coverage = <<>>
    /\ in_text = ""
    /\ in_pattern = NoPattern
    /\ out_number = Zero

\* template = json.load(f): populater.py lines 209-210
LoadTemplate ==
    /\ op = "start"
    /\ \E jv \in Templates :
          /\ heap' = Alloc(heap, jv, "template")
          /\ template' = Loaded(jv, "template")
          /\ loaded' = jv
    /\ op' = "load"
    /\ UNCHANGED <<data, runs, validation, coverage, in_text, in_pattern, out_number>>

\* the address of the dict the k-th call creates
CopyAddress(k) == "populated" \o IntToDec(k)

\* populated_data = populate_balance_sheet(text_content, template) for one of
\* the documents texts, with the JSON the template and the result stand for as
\* the call starts and ends; a call that raises assigns nothing
PopulateOneOf(texts) ==
    /\ op # "start"
    /\ Len(runs) < MaxCalls
    /\ \E text_content \in texts :
          \E r \in {populate_balance_sheet(heap, text_content, template,
                                            CopyAddress(Len(runs) + 1))} :
              /\ heap' = r.h
              /\ in_text' = text_content
              /\ IF r.ok
                 THEN /\ data' = r.root
                      /\ runs' = Append(runs, [text |-> text_content,
                                               root |-> r.root,
                                               before |-> Deep(heap, template),
                                               result |-> Deep(r.h, r.root)])
                      /\ op' = "populate"
                 ELSE /\ UNCHANGED <<data, runs>>
                      /\ op' = "populate raised"
    /\ validation' = <<>>
    /\ coverage' = <<>>
    /\ UNCHANGED <<template, loaded, in_pattern, out_number>>

\* validation = validate_balance_sheet(data), at most n times on an instance
ValidateUpTo(n) ==
    /\ data # Unbound
    /\ Len(validation) < n
    /\ validation' = Append(validation, validate_balance_sheet(heap, data))
    /\ op' = "validate"
    /\ UNCHANGED <<heap, template, loaded, data, runs, coverage,
                   in_text, in_pattern, out_number>>

\* field_stats = count_extracted_fields(data), at most n times on an instance
CountUpTo(n) ==
    /\ data # Unbound
    /\ Len(coverage) < n
    /\ coverage' = Append(coverage, count_extracted_fields(heap, data))
    /\ op' = "count"
    /\ UNCHANGED <<heap, template, loaded, data, runs, validation,
                   in_text, in_pattern, out_number>>

Populate == PopulateOneOf(Texts)

\* the pipeline validates and analyzes an instance once: validator.py lines 76-77
Validate == ValidateUpTo(1)

Count == CountUpTo(1)

Next == LoadTemplate \/ Populate \/ Validate \/ Count

Spec == Init /\ [][Next]_vars

----------------------------------------------------------------------------
(* Properties of the pipeline *)

\* the call made last
LastRun == runs[Len(runs)]

\* C1: populate_balance_sheet never mutates the caller's template: as a call
\* returns, every leaf of the template at every depth holds the value it held
\* when the call started.
C1_TemplateNeverMutated ==
    op = "populate" => Deep(heap, template) = LastRun.before

\* the located leaves whose pattern has no match in the text
Unmatched(text_content) ==
    {i \in 1..Len(Locators) : ~re_search(Locators[i].pat, text_content).found}

\* C2: after populate_balance_sheet every numeric leaf whose locator pattern
\* has no match in the text holds 0, whatever the template held there, the
\* treasury stock leaf included; for the empty text every numeric leaf is 0 and
\* count_extracted_fields reports extraction_rate 0 and as many missing
\* fields as total fields.
C2_UnmatchedLeavesAreZero ==
    /\ op = "populate" =>
          \A i \in Unmatched(LastRun.text) :
              LeafAt(LastRun.result, Locators[i].path) = Num(0)
    /\ (op = "count" /\ LastRun.text = "") =>
          \A i \in 1..Len(coverage) :
              /\ coverage[i].extraction_rate.num = 0
              /\ Len(coverage[i].missing_fields) = coverage[i].total_fields

\* the result of populating a freshly loaded template with one text alone
Fresh(text_content) ==
    Only({Deep(r.h, r.root) :
            r \in {populate_balance_sheet(Alloc(<<>>, loaded, "template"),
                                          text_content,
                                          Loaded(loaded, "template"), "populated")}})

\* C5: the calls are independent: the result of each call equals the result
\* of populating a freshly loaded template with that call's text alone, and a
\* result returned by an earlier call is not changed by a later call.
C5_RunsIndependent ==
    op = "populate" =>
        \A i \in 1..Len(runs) :
            /\ runs[i].result = Fresh(runs[i].text)
            /\ Deep(heap, runs[i].root) = runs[i].result

\* thousands-separated literals N of non-negative integers
TreasuryLiterals == {"0", "7", "500,000", "1,250,000"}

\* the integer a thousands-separated literal stands for
LiteralValue(N) == DecToInt(Filter(N, {","}))

\* the positions at which text contains the string sub
Positions(text, sub) == {i \in 1..Len(text) : MatchExact(text, i, sub)}

TreasuryLeaf(run) == LeafAt(run.result, <<"equity", "3100_treasury_stock">>)

\* the leaf is -n, which is what clean_number makes of "(N)"
IsMinus(leaf, N) ==
    /\ leaf = Num(-(100 * LiteralValue(N)))
    /\ leaf = Num(Hundredths(clean_number("(" \o N \o ")")))

\* C8 as stated: for every text containing "3100 Treasury Stock (N)", N the
\* thousands-separated literal of n, populate_balance_sheet sets
\* equity.3100_treasury_stock to -n, the value of clean_number("(N)").
C8_EveryTreasuryLine ==
    \A k \in 1..Len(runs) : \A N \in TreasuryLiterals :
        Positions(runs[k].text, TreasuryLine(N)) # {} =>
            IsMinus(TreasuryLeaf(runs[k]), N)

\* "3100 Treasury Stock (N)" is the first treasury line of the text
FirstTreasuryLine(text, N) ==
    \E i \in Positions(text, TreasuryLine(N)) :
        \A j \in Positions(text, "3100 Treasury Stock (") : i <= j

\* C8 amended: for every text whose first treasury line is
\* "3100 Treasury Stock (N)", N the thousands-separated literal of n,
\* populate_balance_sheet sets equity.3100_treasury_stock to -n, the value of
\* clean_number("(N)"): the sign is applied once.
C8_FirstTreasuryLine ==
    \A k \in 1..Len(runs) : \A N \in TreasuryLiterals :
        FirstTreasuryLine(runs[k].text, N) => IsMinus(TreasuryLeaf(runs[k]), N)

\* populate_balance_sheet has set the treasury leaf to -500000 for scenario B
C8_Witness ==
    /\ op = "populate"
    /\ LastRun.text = ScenarioB
    /\ TreasuryLeaf(LastRun) = Num(-50000000)

\* the texts that state "Total Assets 100" and "Total Liabilities and Equity
\* 50" and no liabilities or equity breakdown
ScenarioDTexts == {ScenarioD, ScenarioDHeaded}

\* the locator pattern of the leaf at a key path
PatternOf(path) ==
    Locators[CHOOSE i \in 1..Len(Locators) : Locators[i].path = path].pat

\* C11: for a text that states "Total Assets 100" and "Total Liabilities and
\* Equity 50" and no breakdown, populate_balance_sheet then
\* validate_balance_sheet give total_assets 100, total_liabilities 0,
\* total_equity 0, calculated_total 0, stated_total 50, balance_difference
\* 100, stated_difference 50, is_balanced false and matches_stated false; the
\* "Total Liabilities" and "Total Equity" locators do not match in the text.
C11_ScenarioD ==
    (op = "validate" /\ LastRun.text \in ScenarioDTexts) =>
        /\ validation[Len(validation)] =
              [ok |-> TRUE,
               total_assets |-> Num(10000), total_liabilities |-> Num(0),
               total_equity |-> Num(0), calculated_total |-> Num(0),
               stated_total |-> Num(5000), balance_difference |-> Num(10000),
               stated_difference |-> Num(5000),
               is_balanced |-> FALSE, matches_stated |-> FALSE]
        /\ ~re_search(PatternOf(<<"liabilities", "total_liabilities">>),
                      LastRun.text).found
        /\ ~re_search(PatternOf(<<"equity", "total_equity">>), LastRun.text).found

\* scenario D has been populated and validated: the difference is 100
C11_Witness ==
    /\ op = "validate"
    /\ LastRun.text = ScenarioD
    /\ validation[1].ok
    /\ validation[1].balance_difference = Num(10000)
    /\ ~validation[1].is_balanced

\* C15: in every instance returned by populate_balance_sheet, each numeric
\* leaf assigned through extract_value_from_text (every located leaf other
\* than treasury stock) is a non-negative whole number, and the treasury stock
\* leaf, when its locator matches, is <= 0: a parenthesized amount after a
\* non-treasury label is never extracted as a negative value.
C15_SignsOfLocatedLeaves ==
    \A k \in 1..Len(runs) : \A i \in 1..Len(Locators) :
        LET leaf == LeafAt(runs[k].result, Locators[i].path)
        IN  IF Locators[i].treasury
            THEN re_search(Locators[i].pat, runs[k].text).found =>
                     leaf.t = "num" /\ leaf.n <= 0
            ELSE leaf.t = "num" /\ leaf.n >= 0 /\ leaf.n % 100 = 0

\* a document with "1100 Accounts Receivable (5,000)" has been populated, the
\* receivables read as 0 and the cash total as 12, and after it scenario B,
\* the treasury stock read as -500000
C15_Witness ==
    /\ op = "populate"
    /\ Len(runs) = 2
    /\ runs[1].text = Document
    /\ LeafAt(runs[1].result,
              <<"assets", "current_assets", "1100_accounts_receivable">>) = Num(0)
    /\ LeafAt(runs[1].result,
              <<"assets", "current_assets", "cash", "total_cash">>) = Num(1200)
    /\ runs[2].text = ScenarioB
    /\ TreasuryLeaf(runs[2]) = Num(-50000000)

----------------------------------------------------------------------------
(* The validator and the analyzer on their own: validator.py lines 73-77    *)
(* load an instance from a file and hand it to validate_balance_sheet and  *)
(* count_extracted_fields. The instance is any JSON value: sections and    *)
(* aggregates can be missing, nested, or of a type they should not have.   *)

\* the most calls of validate_balance_sheet, and of count_extracted_fields,
\* on the loaded instance
MaxRepeats == 2

\* a key that is not in the object
Absent == [t |-> "absent", n |-> 0, s |-> "", d |-> <<>>]

\* the entry for key, none when the value is Absent
Opt(key, value) == IF value = Absent THEN <<>> ELSE <<Entry(key, value)>>

\* total assets of 100.00, 100.99, 101.00 and 101.01 over liabilities of 60.00
\* and equity of 40.00 give differences of 0, 0.99, 1.00 and 1.01
AssetsChoices ==
    { Absent, Dict(<<>>), Num(500),
      Dict(<<Entry("total_assets", Num(0))>>),
      Dict(<<Entry("total_assets", Num(10099))>>),
      Dict(<<Entry("total_assets", Num(10100))>>),
      Dict(<<Entry("total_assets", Num(10101))>>),
      Dict(<<Entry("total_assets", Str("n/a"))>>),
      Dict(<<Entry("current_assets",
                   Dict(<<Entry("cash", Dict(<<Entry("1010_checking", Num(0)),
                                               Entry("1020_savings", Num(125000)),
                                               Entry("report_date", Num(2018))>>)),
                          Entry("total_current_assets", Num(0))>>)),
             Entry("total_assets", Num(10000))>>) }

LiabilitiesChoices ==
    { Absent, Dict(<<>>), Str("oops"),
      Dict(<<Entry("total_liabilities", Num(6000))>>),
      Dict(<<Entry("2000_accounts_payable", Num(0)),
             Entry("note", Null),
             Entry("total_liabilities", Num(16000))>>) }

EquityChoices ==
    { Absent,
      Dict(<<Entry("total_equity", Num(4000))>>),
      Dict(<<Entry("3100_treasury_stock", Num(-50000)),
             Entry("total_equity", Bool(TRUE))>>),
      Dict(<<Entry("total_equity", Null)>>) }

StatedChoices == {Absent, Num(10000), Num(0), Dict(<<>>)}

\* entries besides the sections: none, or header fields and other values
ExtraChoices ==
    { <<>>,
      <<Entry("company_name", Str("XYZ")), Entry("report_title", Num(5)),
        Entry("audited", Bool(FALSE)), Entry("notes", Str("0")),
        Entry("report_date", Dict(<<Entry("year", Num(2018))>>)),
        Entry("other", Dict(<<Entry("deep", Dict(<<Entry("leaf", Num(1))>>))>>))>> }

Schemas ==
    { Dict(x \o Opt("assets", a) \o Opt("liabilities", l) \o Opt("equity", e)
             \o Opt("total_liabilities_and_equity", st)) :
        x \in ExtraChoices, a \in AssetsChoices, l \in LiabilitiesChoices,
        e \in EquityChoices, st \in StatedChoices }
      \cup {Num(500), Str("assets"), Null}

\* data = json.load(f): validator.py lines 73-74
LoadData ==
    /\ op = "start"
    /\ \E jv \in Schemas :
          /\ heap' = Alloc(heap, jv, "data")
          /\ data' = Loaded(jv, "data")
          /\ loaded' = jv
    /\ op' = "load"
    /\ UNCHANGED <<template, runs, validation, coverage,
                   in_text, in_pattern, out_number>>

Revalidate == ValidateUpTo(MaxRepeats)

Recount == CountUpTo(MaxRepeats)

SchemaNext == LoadData \/ Revalidate \/ Recount

SpecSchema == Init /\ [][SchemaNext]_vars

----------------------------------------------------------------------------
(* Properties of the validator and the analyzer *)

\* the instance the reports are about
Instance == Deep(heap, data)

RECURSIVE HasPath(_, _)
\* the JSON value has a value at the key path
HasPath(jv, path) ==
    \/ path = <<>>
    \/ /\ jv.t = "dict"
       /\ HasKey(jv.d, Head(path))
       /\ HasPath(Get(jv.d, Head(path)), Tail(path))

\* the value at the key path, 0 when there is none
ReadAs(jv, path) == IF HasPath(jv, path) THEN LeafAt(jv, path) ELSE Num(0)

AssetsPath == <<"assets", "total_assets">>

LiabilitiesPath == <<"liabilities", "total_liabilities">>

EquityPath == <<"equity", "total_equity">>

StatedPath == <<"total_liabilities_and_equity">>

AggregatePaths == {AssetsPath, LiabilitiesPath, EquityPath, StatedPath}

\* a mapping whose sections, where present, are mappings and whose
\* aggregates, where present, are numbers
WellFormed(jv) ==
    /\ jv.t = "dict"
    /\ \A path \in AggregatePaths :
          /\ HasKey(jv.d, path[1]) /\ Len(path) = 2 => Get(jv.d, path[1]).t = "dict"
          /\ IsNumber(ReadAs(jv, path))

\* C3: validate_balance_sheet returns calculated_total = total_liabilities +
\* total_equity, balance_difference = |total_assets - calculated_total|,
\* stated_difference = |total_assets - stated_total|, is_balanced exactly when
\* balance_difference < 1.0 and matches_stated exactly when stated_difference
\* < 1.0; a difference of 1.0 is unbalanced, 0.99 balanced, 1.01 unbalanced.
C3_ValidationArithmetic ==
    WellFormed(Instance) =>
        \A i \in 1..Len(validation) :
            LET r == validation[i]
                assets == ReadAs(Instance, AssetsPath).n
                calculated == ReadAs(Instance, LiabilitiesPath).n
                                  + ReadAs(Instance, EquityPath).n
                stated == ReadAs(Instance, StatedPath).n
                balance == IF assets >= calculated THEN assets - calculated
                           ELSE calculated - assets
                diff == IF assets >= stated THEN assets - stated ELSE stated - assets
            IN  /\ r.ok
                /\ r.calculated_total = Num(calculated)
                /\ r.balance_difference = Num(balance)
                /\ r.stated_difference = Num(diff)
                /\ r.is_balanced <=> balance < 100
                /\ r.matches_stated <=> diff < 100
                /\ balance = 99 => r.is_balanced
                /\ balance \in {100, 101} => ~r.is_balanced

\* validate_balance_sheet has reported a difference of exactly 1.00 as unbalanced
C3_Witness ==
    /\ op = "validate"
    /\ validation[Len(validation)].ok
    /\ validation[Len(validation)].balance_difference = Num(100)
    /\ ~validation[Len(validation)].is_balanced

\* C4: the report of count_extracted_fields has 0 <= extraction_rate <= 100
\* and extracted_fields + len(missing_fields) = total_fields, with
\* extraction_rate = extracted_fields / total_fields * 100 when total_fields > 0
\* and extraction_rate = 0 when total_fields = 0.
C4_CoverageBounds ==
    \A i \in 1..Len(coverage) :
        LET r == coverage[i]
            rate == r.extraction_rate
        IN  /\ rate.den > 0
            /\ 0 <= rate.num /\ rate.num <= 100 * rate.den
            /\ r.extracted_fields + Len(r.missing_fields) = r.total_fields
            /\ r.total_fields > 0 =>
                  rate.num * r.total_fields = r.extracted_fields * 100 * rate.den
            /\ r.total_fields = 0 => rate.num = 0

\* count_extracted_fields has reported some fields extracted and some missing
C4_Witness ==
    /\ op = "count"
    /\ coverage[Len(coverage)].extracted_fields > 0
    /\ Len(coverage[Len(coverage)].missing_fields) > 1
    /\ coverage[Len(coverage)].total_fields > 3

\* the nine fields of a validation report: seven numbers and two booleans
NumberFields ==
    {"total_assets", "total_liabilities", "total_equity", "calculated_total",
     "stated_total", "balance_difference", "stated_difference"}

FlagFields == {"is_balanced", "matches_stated"}

\* the field of the report that holds the aggregate at a path
FieldOf(r, path) ==
    CASE path = AssetsPath -> r.total_assets
      [] path = LiabilitiesPath -> r.total_liabilities
      [] path = EquityPath -> r.total_equity
      [] OTHER -> r.stated_total

\* C9: validate_balance_sheet does not fail on a schema that lacks aggregates:
\* a missing section or a missing aggregate key is read as 0 and a complete
\* report with all nine fields is returned.
C9_MissingAggregatesReadAsZero ==
    (WellFormed(Instance) /\ \E path \in AggregatePaths : ~HasPath(Instance, path)) =>
        \A i \in 1..Len(validation) :
            /\ validation[i].ok
            /\ NumberFields \cup FlagFields \subseteq DOMAIN validation[i]
            /\ \A f \in NumberFields : IsNumber(validation[i][f])
            /\ \A f \in FlagFields : validation[i][f] \in BOOLEAN
            /\ \A path \in AggregatePaths :
                  ~HasPath(Instance, path) => FieldOf(validation[i], path) = Num(0)

\* validate_balance_sheet has returned a report for an instance with no assets
\* section and no stated total
C9_Witness ==
    /\ op = "validate"
    /\ Instance.t = "dict"
    /\ ~HasKey(Instance.d, "assets")
    /\ ~HasKey(Instance.d, "total_liabilities_and_equity")
    /\ HasPath(Instance, LiabilitiesPath)
    /\ validation[Len(validation)].ok
    /\ validation[Len(validation)].total_assets = Num(0)
    /\ validation[Len(validation)].stated_total = Num(0)

Sections == {"assets", "liabilities", "equity"}

\* a value that is no mapping where a mapping is expected: at the top level,
\* or at a section
Malformed(jv) ==
    \/ jv.t # "dict"
    \/ \E section \in Sections :
          HasKey(jv.d, section) /\ Get(jv.d, section).t # "dict"

\* C13: given malformed schema input (a value that is no mapping at the top
\* level or at a section such as assets), each of populate_balance_sheet,
\* count_extracted_fields and validate_balance_sheet surfaces an error to its
\* caller: populate_balance_sheet raises on it, no call of
\* validate_balance_sheet returns a report, and no call of
\* count_extracted_fields returns a report.
C13_MalformedSurfacesError ==
    (loaded # Unbound /\ Malformed(loaded)) =>
        /\ op = "load" => ~populate_balance_sheet(heap, "", data, "populated").ok
        /\ \A i \in 1..Len(validation) : ~validation[i].ok
        /\ coverage = <<>>

RECURSIVE Dotted(_)
\* the dotted path of a key path from the root
Dotted(path) ==
    IF Len(path) = 1 THEN path[1]
    ELSE Dotted(SubSeq(path, 1, Len(path) - 1)) \o "." \o path[Len(path)]

RECURSIVE NumericLeaves(_, _)
\* the key paths, below prefix, of the leaves of a JSON value that count as
\* numbers
NumericLeaves(jv, prefix) ==
    IF jv.t # "dict" THEN {}
    ELSE UNION {IF IsNumber(jv.d[i].v) THEN {Append(prefix, jv.d[i].k)}
                ELSE NumericLeaves(jv.d[i].v, Append(prefix, jv.d[i].k)) :
                    i \in DOMAIN jv.d}

\* the report classifies exactly the leaves at the key paths counted: they are
\* the total, the non-zero ones the extracted, and the dotted paths of the
\* zero ones, each once, the missing
Classifies(r, jv, counted) ==
    LET zero == {path \in counted : LeafAt(jv, path).n = 0}
    IN  /\ r.total_fields = Cardinality(counted)
        /\ r.extracted_fields = Cardinality(counted \ zero)
        /\ Len(r.missing_fields) = Cardinality(zero)
        /\ {r.missing_fields[i] : i \in DOMAIN r.missing_fields} =
              {Dotted(path) : path \in zero}

----------------------------------------------------------------------------
(* The pipeline on templates of other shapes: the template is whatever     *)
(* JSON the caller's file holds (populater.py lines 209-210). It can have  *)
(* leaves the populator has no locator for, holding any number, and it can *)
(* be malformed: no mapping at all, or a value that is no mapping where    *)
(* the populator expects a section.                                        *)

\* numeric leaves no statement of lines 70-202 assigns: in a section, and at
\* the top level
UnlocatedPaths == {<<"assets", "9999_goodwill">>, <<"net_income">>}

\* what a caller's template can hold at such a leaf, in hundredths
InitialValues == {0, 700, -250}

\* templates that are no mapping, or have a value that is no mapping as the
\* first section, as the last section, or below a section
MalformedTemplates ==
    {Num(500), Null, Dict(<<Entry("assets", Str("oops"))>>),
     JInsert(TemplateValue(0), <<"equity">>, Str("oops")),
     JInsert(TemplateValue(0), <<"assets", "current_assets", "cash">>, Num(5))}

Shapes ==
    {JInsert(TemplateValue(0), path, Num(x)) :
        path \in UnlocatedPaths, x \in InitialValues} \cup MalformedTemplates

\* documents: empty, with located labels, and with the unlocated labels
ShapeTexts == {"", ScenarioA, Document, "9999 Goodwill 5\nNet Income 5"}

\* template = json.load(f): populater.py lines 209-210
LoadShape ==
    /\ op = "start"
    /\ \E jv \in Shapes :
          /\ heap' = Alloc(heap, jv, "template")
          /\ template' = Loaded(jv, "template")
          /\ loaded' = jv
    /\ op' = "load"
    /\ UNCHANGED <<data, runs, validation, coverage, in_text, in_pattern, out_number>>

PopulateShape == PopulateOneOf(ShapeTexts)

ShapeNext == LoadShape \/ PopulateShape \/ Validate \/ Count

SpecShape == Init /\ [][ShapeNext]_vars

\* the located leaves of a JSON value that hold a non-zero number
LocatedNonZero(jv) ==
    {i \in 1..Len(Locators) :
        IsNumber(LeafAt(jv, Locators[i].path)) /\ LeafAt(jv, Locators[i].path).n # 0}

\* C12: a numeric leaf of the supplied schema for which populate_balance_sheet
\* has no locator pattern is never extracted: for every text and every initial
\* value of that leaf, after populate then count_extracted_fields the leaf's
\* dotted path is in missing_fields and the leaf is not counted in
\* extracted_fields.
C12_UnlocatedLeafAlwaysMissing ==
    op = "count" =>
        \A path \in UnlocatedPaths :
            IsNumber(LeafAt(loaded, path)) =>
                LET r == coverage[Len(coverage)]
                IN  /\ \E i \in DOMAIN r.missing_fields :
                          r.missing_fields[i] = Dotted(path)
                    /\ r.extracted_fields = Cardinality(LocatedNonZero(Instance))

----------------------------------------------------------------------------
(* The normalizer and the extractor on their own: clean_number and         *)
(* extract_value_from_text applied once to an input drawn from a bounded   *)
(* set.                                                                    *)

\* the longest literal drawn character by character
MaxLitLen == 3

\* integers 0..MaxSmall, and 2^53 - MaxSmall .. 2^53 + MaxSmall, are sampled
MaxSmall == 12

LitAlphabet == {"5", ",", " ", "(", ")", "-", ".", "a"}

RECURSIVE Strings(_)
\* every string over LitAlphabet of length at most n
Strings(n) ==
    IF n = 0 THEN {""}
    ELSE LET S == Strings(n - 1) IN S \cup {s \o c : s \in S, c \in LitAlphabet}

Literals == Strings(MaxLitLen) \cup {"()", "(-5)", "abc", "1.2.3", None}

RECURSIVE Thousands(_)
\* the thousands-separated literal of a digit string: format(n, ",")
Thousands(d) ==
    IF Len(d) <= 3 THEN d
    ELSE Thousands(SubSeq(d, 1, Len(d) - 3)) \o "," \o SubSeq(d, Len(d) - 2, Len(d))

RECURSIVE SpaceOut(_)
\* s with whitespace before, between and after its characters
SpaceOut(s) ==
    IF s = "" THEN "\n"
    ELSE (IF Len(s) % 2 = 0 THEN " " ELSE "\t") \o At(s, 1) \o SpaceOut(Tail(s))

TwoTo53 == "9007199254740992"

SampleIntegers ==
    {IntToDec(n) : n \in 0..MaxSmall}
        \cup {"999", "1000", "500000", "999999", "1250000", "1000000000",
              "999999999999999", "999999999999999999"}
        \cup {DecSub(TwoTo53, d) : d \in 0..MaxSmall}
        \cup {DecAdd(TwoTo53, d) : d \in 0..MaxSmall}

Forms == {"plain", "thousands", "parenthesized"} \X {FALSE, TRUE}

\* the literal of the integer n in a form, spaced out or not
Render(n, form) ==
    LET lit == CASE form[1] = "plain" -> n
                 [] form[1] = "thousands" -> Thousands(n)
                 [] OTHER -> "(" \o Thousands(n) \o ")"
    IN  IF form[2] THEN SpaceOut(lit) ELSE lit

\* the rendered samples with the integer each stands for: -n when parenthesized
Rendered ==
    {[text |-> Render(n, f), n |-> n, neg |-> f[1] = "parenthesized"] :
        n \in SampleIntegers, f \in Forms}

\* patterns a caller may hand to extract_value_from_text
CallerPatterns ==
    { Pattern(<<"Value">>, "", "nonspace", ""),
      Pattern(<<"Total", "Cash">>, "", "digits", ""),
      Pattern(<<"3100", "Treasury", "Stock">>, "(", "digits", ")") }

Labels == {"Value ", "total  cash\n", "3100 Treasury Stock ", "Other "}

NumInit ==
    /\ heap = <<>>
    /\ template = Unbound
    /\ loaded = Unbound
    /\ data = Unbound
    /\ runs = <<>>
    /\ op = "start"
    /\ validation = <<>>
    /\ coverage = <<>>
    /\ in_text \in Literals \cup {r.text : r \in Rendered}
    /\ in_pattern = NoPattern
    /\ out_number = Zero

\* clean_number(in_text)
CleanNumber ==
    /\ op = "start"
    /\ out_number' = clean_number(in_text)
    /\ op' = "clean_number"
    /\ UNCHANGED <<heap, template, loaded, data, runs, validation, coverage,
                   in_text, in_pattern>>

\* extract_value_from_text(label + in_text, pat)
ExtractValue ==
    /\ op = "start"
    /\ in_text # None
    /\ \E label \in Labels, pat \in CallerPatterns :
          /\ in_text' = label \o in_text
          /\ in_pattern' = pat
          /\ out_number' = extract_value_from_text(label \o in_text, pat)
    /\ op' = "extract"
    /\ UNCHANGED <<heap, template, loaded, data, runs, validation, coverage>>

NumNext == CleanNumber \/ ExtractValue

SpecNum == NumInit /\ [][NumNext]_vars

\* the literal parses as a number once commas, whitespace and one enclosing
\* pair of parentheses are removed
Parses(lit) ==
    lit # None /\ PyFloat(Unparenthesize(RemoveCommasAndSpace(lit))).ok

\* C6 as stated: for every integer n >= 0, clean_number of the parenthesized
\* thousands-separated literal of n is exactly -n and clean_number of the plain
\* or thousands-separated literal is exactly n, with or without whitespace.
C6_RoundTripEveryInteger ==
    op = "clean_number" =>
        \A r \in Rendered :
            in_text = r.text =>
                out_number.ok /\ FloatEq(out_number, Float(r.neg, r.n, ""))

\* C6 amended: the same for every integer 0 <= n <= 2^53 = 9007199254740992,
\* the range in which every integer is a double.
C6_RoundTripUpToTwoTo53 ==
    op = "clean_number" =>
        \A r \in Rendered :
            (in_text = r.text /\ ~DecLess(TwoTo53, r.n)) =>
                out_number.ok /\ FloatEq(out_number, Float(r.neg, r.n, ""))

\* clean_number has returned -1250000 for "(1,250,000)" with whitespace in it
C6_Witness ==
    /\ op = "clean_number"
    /\ in_text = SpaceOut("(1,250,000)")
    /\ out_number = Float(TRUE, "1250000", "")

\* C7: clean_number never raises; None, "" and every literal that does not
\* parse yield 0; extract_value_from_text returns 0 when the pattern has no
\* match or its match captures a literal that does not parse.
C7_UnparseableYieldsZero ==
    /\ op = "clean_number" =>
          /\ out_number.ok
          /\ (in_text \in {None, ""} \/ ~Parses(in_text)) => IsZero(out_number)
    /\ op = "extract" =>
          /\ out_number.ok
          /\ LET m == re_search(in_pattern, in_text)
             IN  (~m.found \/ ~Parses(m.group)) => IsZero(out_number)

\* extract_value_from_text has returned 0 for a match that captured "(-5)"
C7_Witness ==
    /\ op = "extract"
    /\ re_search(in_pattern, in_text) = Match("(-5)")
    /\ out_number = Zero

====
